---- MODULE Spec2Model ----
(***************************************************************************)
(* A model of lettre's core crate file (src/lettre/src/lib.rs): the Error  *)
(* enum, EmailAddress, Envelope, Message, SendableEmail and the Transport  *)
(* trait's send signature.                                                 *)
(*                                                                         *)
(* Encodings.  A String is a TLA+ string; a Vec<u8> and the text drained   *)
(* from a Message are sequences of byte values.  Option<T> is a sequence   *)
(* of length at most one (None == <<>>, Some(x) == <<x>>).  Result<T, E>   *)
(* is a record [ok, val, err] whose val and err are Options.  The tuple    *)
(* struct EmailAddress(String) is the one-element tuple <<s>>.             *)
(***************************************************************************)
EXTENDS Integers, Sequences, FiniteSets, TLC

\* ---------------------------------------------------------------- bounds

\* Longest recipient list handed to Envelope::new or to the deserializer.
MaxTo == 2

\* Longest byte buffer handed to SendableEmail::new.
MaxLen == 3

\* Most outcomes (chunks, end-of-stream reports, errors) a streaming source
\* produces before it stays at end-of-stream.
MaxScript == 2

\* Largest buffer handed to one call of Message::read.
MaxBuf == 2

\* ------------------------------------------------------- input universes

\* Address texts: the empty string, a well-formed address, invalid text.
AddrStrs == {"", "user@example.com", "not an address"}

\* Address texts used inside envelopes.
EnvStrs == {"", "user@example.com"}

RECURSIVE SeqsUpTo(_, _)
SeqsUpTo(S, n) ==
    IF n = 0 THEN {<<>>}
    ELSE LET shorter == SeqsUpTo(S, n - 1)
         IN  shorter \cup {Append(s, x) : s \in {t \in shorter : Len(t) = n - 1}, x \in S}

None == <<>>
Some(x) == <<x>>
OptionOf(S) == {None} \cup {Some(x) : x \in S}

\* ------------------------------------------------------------ Error, Result

ErrorKinds == {"MissingFrom", "MissingTo", "InvalidEmailAddress"}

Ok(v) == [ok |-> TRUE, val |-> Some(v), err |-> None]
Err(e) == [ok |-> FALSE, val |-> None, err |-> Some(e)]

\* ------------------------------------------------------------ EmailAddress

\* EmailAddress::new as it would be with a first sanity check: the empty
\* text is refused.
EmailAddressNewRejectsEmpty(address) ==
    IF address = "" THEN Err("InvalidEmailAddress") ELSE Ok(<<address>>)

\* EmailAddress::new: wraps the text, no validation.
EmailAddressNew(address) == Ok(<<address>>)

\* from_str as it would be if parsing validated on its own: text that is no
\* address is refused.
EmailAddressFromStrRejects(s) ==
    IF s = "not an address" THEN Err("InvalidEmailAddress") ELSE EmailAddressNew(s)

\* <EmailAddress as FromStr>::from_str: s.to_string(), then new.
EmailAddressFromStr(s) == EmailAddressNew(s)

\* <EmailAddress as Display>::fmt: writes the wrapped text.
EmailAddressDisplay(a) == a[1]

\* derive(PartialEq) on EmailAddress: the wrapped strings compare equal.
EmailAddressEq(a, b) == a[1] = b[1]

EnvAddrs == {EmailAddressNew(s).val[1] : s \in EnvStrs}

\* ---------------------------------------------------------------- Envelope

\* Envelope::new as it would be if it required a sender too.
EnvelopeNewRequiresFrom(from, to) ==
    IF Len(to) = 0
    THEN Err("MissingTo")
    ELSE IF Len(from) = 0
         THEN Err("MissingFrom")
         ELSE Ok([forward_path |-> to, reverse_path |-> from])

\* Envelope::new
EnvelopeNew(from, to) ==
    IF Len(to) = 0
    THEN Err("MissingTo")
    ELSE Ok([forward_path |-> to, reverse_path |-> from])

\* Envelope::to
EnvelopeTo(e) == e.forward_path

\* Envelope::from
EnvelopeFrom(e) == e.reverse_path

\* Recipient lists compared as sets of addresses, the order ignored.
VecEqUnordered(u, v) ==
    /\ Len(u) = Len(v)
    /\ {u[i] : i \in 1..Len(u)} = {v[i] : i \in 1..Len(v)}

\* derive(PartialEq) on Vec<EmailAddress>: same length, equal element by element.
VecEq(u, v) ==
    /\ Len(u) = Len(v)
    /\ \A i \in 1..Len(u) : EmailAddressEq(u[i], v[i])

\* derive(PartialEq) on Option<EmailAddress>.
OptionEq(x, y) ==
    /\ Len(x) = Len(y)
    /\ Len(x) = 1 => EmailAddressEq(x[1], y[1])

\* derive(PartialEq) on Envelope: field by field, in declaration order.
EnvelopeEq(e, f) ==
    /\ VecEq(e.forward_path, f.forward_path)
    /\ OptionEq(e.reverse_path, f.reverse_path)

\* derive(Deserialize) on Envelope and EmailAddress (feature serde-impls):
\* every string of the serialized form becomes an EmailAddress and the two
\* fields are filled in as they come; Envelope::new is not called.
RECURSIVE DeserializeAddrs(_)
DeserializeAddrs(strs) ==
    IF Len(strs) = 0 THEN <<>>
    ELSE <<(<<Head(strs)>>)>> \o DeserializeAddrs(Tail(strs))

EnvelopeDeserialize(ser) ==
    [forward_path |-> DeserializeAddrs(ser.forward_path),
     reverse_path |-> DeserializeAddrs(ser.reverse_path)]

\* The serialized forms a deserializer may be handed.
Serialized ==
    [forward_path : SeqsUpTo(EnvStrs, MaxTo), reverse_path : OptionOf(EnvStrs)]

\* ----------------------------------------------------------------- Message

\* Byte values: an ASCII letter, the lead byte of a two-byte UTF-8 character
\* and a continuation byte (195 169 encodes one character; 195 or 169 alone
\* is not valid UTF-8).
ByteVals == {65, 195, 169}

\* The byte buffers handed to SendableEmail::new.
Buffers == SeqsUpTo(ByteVals, MaxLen)

\* What one call of the boxed reader's read may do: deliver a chunk, report
\* end-of-stream (zero bytes), or fail with an io::Error of kind Interrupted
\* or of another kind.
Chunks == {<<65>>, <<195>>, <<169>>, <<65, 65>>, <<195, 169>>}
Outcomes ==
    {[k |-> "data", b |-> c] : c \in Chunks}
        \cup {[k |-> x, b |-> <<>>] : x \in {"eof", "intr", "err"}}

\* A streaming source: the outcomes of its successive reads; a source whose
\* outcomes are used up reports end-of-stream from then on.
Scripts == SeqsUpTo(Outcomes, MaxScript)

\* Message::Bytes(Cursor::new(buf)) and Message::Reader(rdr)
MessageBytes(buf) == [tag |-> "Bytes", buf |-> buf, pos |-> 0, src |-> <<>>]
MessageReader(script) == [tag |-> "Reader", buf |-> <<>>, pos |-> 0, src |-> script]

Min(a, b) == IF a <= b THEN a ELSE b

ReadOk(m, bytes) == [msg |-> m, ok |-> TRUE, bytes |-> bytes, kind |-> ""]
ReadErr(m, kind) == [msg |-> m, ok |-> FALSE, bytes |-> <<>>, kind |-> kind]

\* A cursor read that advances the position but copies from the start of the
\* buffer.
CursorReadFromStart(m, n) ==
    LET amt == Min(n, Len(m.buf) - m.pos)
    IN  ReadOk([m EXCEPT !.pos = m.pos + amt], SubSeq(m.buf, 1, amt))

\* Cursor<Vec<u8>>::read with a buffer of n bytes: copies what is left from
\* the position on, at most n bytes, and advances the position.
CursorRead(m, n) ==
    LET amt == Min(n, Len(m.buf) - m.pos)
    IN  ReadOk([m EXCEPT !.pos = m.pos + amt],
               SubSeq(m.buf, m.pos + 1, m.pos + amt))

\* A streaming read that, when the source is used up, reports end-of-stream
\* and puts a chunk read before back in front of the source.
ReaderReadRewinds(m, n) ==
    IF Len(m.src) = 0
    THEN ReadOk([m EXCEPT !.src = <<[k |-> "data", b |-> <<65>>]>>], <<>>)
    ELSE LET o == Head(m.src)
             rest == [m EXCEPT !.src = Tail(m.src)]
         IN  CASE o.k = "data" /\ Len(o.b) <= n -> ReadOk(rest, o.b)
               [] o.k = "data" /\ Len(o.b) > n ->
                    ReadOk([m EXCEPT !.src = <<[k |-> "data", b |-> SubSeq(o.b, n + 1, Len(o.b))]>>
                                                \o Tail(m.src)],
                           SubSeq(o.b, 1, n))
               [] o.k = "eof" -> ReadOk(rest, <<>>)
               [] o.k = "intr" -> ReadErr(rest, "Interrupted")
               [] OTHER -> ReadErr(rest, "Other")

\* The boxed reader's read with a buffer of n bytes: the source's next
\* outcome; of a chunk longer than the buffer, the first n bytes now and
\* the rest on the next reads.
ReaderRead(m, n) ==
    IF Len(m.src) = 0 THEN ReadOk(m, <<>>)
    ELSE LET o == Head(m.src)
             rest == [m EXCEPT !.src = Tail(m.src)]
         IN  CASE o.k = "data" /\ Len(o.b) <= n -> ReadOk(rest, o.b)
               [] o.k = "data" /\ Len(o.b) > n ->
                    ReadOk([m EXCEPT !.src = <<[k |-> "data", b |-> SubSeq(o.b, n + 1, Len(o.b))]>>
                                                \o Tail(m.src)],
                           SubSeq(o.b, 1, n))
               [] o.k = "eof" -> ReadOk(rest, <<>>)
               [] o.k = "intr" -> ReadErr(rest, "Interrupted")
               [] OTHER -> ReadErr(rest, "Other")

\* <Message as Read>::read
MessageRead(m, n) ==
    IF m.tag = "Reader" THEN ReaderRead(m, n) ELSE CursorRead(m, n)

\* Read::read_to_end as called by read_to_string: reads until a read returns
\* zero bytes, retries a read that fails with Interrupted, stops at any
\* other error.
RECURSIVE ReadToEnd(_, _, _)
ReadToEnd(m, n, acc) ==
    LET r == MessageRead(m, n)
    IN  IF r.ok
        THEN IF Len(r.bytes) = 0
             THEN [ok |-> TRUE, bytes |-> acc, kind |-> ""]
             ELSE ReadToEnd(r.msg, n, acc \o r.bytes)
        ELSE IF r.kind = "Interrupted"
             THEN ReadToEnd(r.msg, n, acc)
             ELSE [ok |-> FALSE, bytes |-> acc, kind |-> r.kind]

\* str::from_utf8(bytes).is_ok()
RECURSIVE Utf8Valid(_)
Utf8Valid(bytes) ==
    IF Len(bytes) = 0 THEN TRUE
    ELSE LET b == bytes[1]
             width == CASE b < 128 -> 1
                        [] b >= 194 /\ b <= 223 -> 2
                        [] b >= 224 /\ b <= 239 -> 3
                        [] b >= 240 /\ b <= 244 -> 4
                        [] OTHER -> 0
             lo == CASE b = 224 -> 160 [] b = 240 -> 144 [] OTHER -> 128
             hi == CASE b = 237 -> 159 [] b = 244 -> 143 [] OTHER -> 191
         IN  /\ width > 0
             /\ Len(bytes) >= width
             /\ width >= 2 => bytes[2] >= lo /\ bytes[2] <= hi
             /\ \A i \in 3..width : bytes[i] >= 128 /\ bytes[i] <= 191
             /\ Utf8Valid(SubSeq(bytes, width + 1, Len(bytes)))

\* A drain that skips the UTF-8 check (String::from_utf8_unchecked).
ReadToStringUnchecked(m, n) ==
    LET r == ReadToEnd(m, n, <<>>)
    IN  IF r.ok
        THEN [ok |-> TRUE, text |-> r.bytes, domain |-> "", kind |-> ""]
        ELSE [ok |-> FALSE, text |-> <<>>, domain |-> "io", kind |-> r.kind]

\* Read::read_to_string into an empty String: the text on success; an
\* read's own error when a read failed, an io::Error of kind InvalidData
\* when the bytes read are not UTF-8; no text with an error.
ReadToString(m, n) ==
    LET r == ReadToEnd(m, n, <<>>)
    IN  CASE ~r.ok -> [ok |-> FALSE, text |-> <<>>, domain |-> "io", kind |-> r.kind]
          [] ~Utf8Valid(r.bytes) -> [ok |-> FALSE, text |-> <<>>, domain |-> "io", kind |-> "InvalidData"]
          [] OTHER -> [ok |-> TRUE, text |-> r.bytes, domain |-> "", kind |-> ""]

\* ------------------------------------------------------------ SendableEmail

\* SendableEmail::new
SendableEmailNew(envelope, message_id, message) ==
    [envelope |-> envelope, message_id |-> message_id,
     message |-> MessageBytes(message)]

\* SendableEmail::new_with_reader
SendableEmailNewWithReader(envelope, message_id, message) ==
    [envelope |-> envelope, message_id |-> message_id,
     message |-> MessageReader(message)]

\* An envelope accessor that loses the sender.
SendableEmailEnvelopeNoSender(e) == [e.envelope EXCEPT !.reverse_path = None]

\* SendableEmail::envelope
SendableEmailEnvelope(e) == e.envelope

\* SendableEmail::message_id
SendableEmailMessageId(e) == e.message_id

\* SendableEmail::message
SendableEmailMessage(e) == e.message

\* SendableEmail::message_to_string, read_to_string working with buffers of
\* n bytes
SendableEmailMessageToString(e, n) == ReadToString(e.message, n)

\* Message identifiers handed to the constructors.
MessageIds == {"", "<id-1@host>"}

\* The envelopes the mail layer starts from.
MailEnvelopes ==
    {EnvelopeNew(None, <<(<<"user@example.com">>)>>).val[1],
     EnvelopeNew(Some(<<"">>), <<(<<"user@example.com">>), <<"">> >>).val[1]}

\* ------------------------------------------------------------------- state

VARIABLES
    envA,       \* Option<Envelope>: an envelope the caller holds
    envB,       \* Option<Envelope>: a second one
    call,       \* the last call of the value layer, its arguments and result
    email,      \* Option<SendableEmail>: the email while it exists
    holder,     \* who owns the email: a subset of {"caller", "transport"}
    msg,        \* Option<Message>: the Message moved out by message()
    ret,        \* the last call on the email or on msg, and its result
    built,      \* history: the arguments the email was constructed from
    got,        \* history: the bytes the reads on msg have delivered
    eos,        \* history: a read on msg has reported end-of-stream
    sent,       \* history: the email was handed to Transport::send
    accessed,   \* history: envelope() or message_id() was called
    consumed    \* history: "no", "once", "again": consuming calls so far

vars == <<envA, envB, call, email, holder, msg, ret, built, got, eos, sent, accessed, consumed>>
valueVars == <<envA, envB, call>>
mailVars == <<email, holder, msg, ret, built, got, eos, sent, accessed, consumed>>

NoCall ==
    [op |-> "none", str |-> "", from |-> None, to |-> <<>>,
     res |-> Ok("none"), out |-> "", eq |-> FALSE]

NoRet ==
    [op |-> "none", ok |-> TRUE, bytes |-> <<>>, domain |-> "", kind |-> "",
     env |-> None, id |-> None, late |-> FALSE, afterEos |-> FALSE]

InitMail ==
    /\ email = None
    /\ holder = {}
    /\ msg = None
    /\ ret = NoRet
    /\ built = None
    /\ got = <<>>
    /\ eos = FALSE
    /\ sent = FALSE
    /\ accessed = FALSE
    /\ consumed = "no"

\* The value layer: nothing constructed yet.
InitValues ==
    /\ envA = None
    /\ envB = None
    /\ call = NoCall
    /\ InitMail

\* ------------------------------------------------- actions: the value layer

\* EmailAddress::new(s)
NewAddress(s) ==
    /\ call' = [NoCall EXCEPT !.op = "EmailAddress::new", !.str = s,
                              !.res = EmailAddressNew(s)]
    /\ UNCHANGED <<envA, envB, mailVars>>

\* s.parse::<EmailAddress>()
ParseAddress(s) ==
    /\ call' = [NoCall EXCEPT !.op = "EmailAddress::from_str", !.str = s,
                              !.res = EmailAddressFromStr(s)]
    /\ UNCHANGED <<envA, envB, mailVars>>

\* format!("{}", address) of the address the last call returned
DisplayAddress ==
    /\ call.op \in {"EmailAddress::new", "EmailAddress::from_str"}
    /\ call.res.ok
    /\ call' = [call EXCEPT !.op = "Display",
                            !.out = EmailAddressDisplay(call.res.val[1])]
    /\ UNCHANGED <<envA, envB, mailVars>>

\* Envelope::new(from, to), the envelope kept in a slot when there is one
NewEnvelope(slot, from, to) ==
    LET res == EnvelopeNew(from, to)
    IN  /\ call' = [NoCall EXCEPT !.op = "Envelope::new", !.from = from,
                                  !.to = to, !.res = res]
        /\ envA' = IF slot = "A" /\ res.ok THEN res.val ELSE envA
        /\ envB' = IF slot = "B" /\ res.ok THEN res.val ELSE envB
        /\ UNCHANGED mailVars

\* envA.clone()
CloneEnvelope ==
    /\ envA # None
    /\ envB' = envA
    /\ call' = [NoCall EXCEPT !.op = "Envelope::clone"]
    /\ UNCHANGED <<envA, mailVars>>

\* Envelope::deserialize of a serialized form
DeserializeEnvelope(slot, ser) ==
    /\ envA' = IF slot = "A" THEN Some(EnvelopeDeserialize(ser)) ELSE envA
    /\ envB' = IF slot = "B" THEN Some(EnvelopeDeserialize(ser)) ELSE envB
    /\ call' = [NoCall EXCEPT !.op = "Envelope::deserialize"]
    /\ UNCHANGED mailVars

\* envA == envB
CompareEnvelopes ==
    /\ envA # None
    /\ envB # None
    /\ call' = [NoCall EXCEPT !.op = "Envelope::eq",
                              !.eq = EnvelopeEq(envA[1], envB[1])]
    /\ UNCHANGED <<envA, envB, mailVars>>

NextValues ==
    \/ \E s \in AddrStrs : NewAddress(s)
    \/ \E s \in AddrStrs : ParseAddress(s)
    \/ DisplayAddress
    \/ \E slot \in {"A", "B"}, from \in OptionOf(EnvAddrs), to \in SeqsUpTo(EnvAddrs, MaxTo) :
            NewEnvelope(slot, from, to)
    \/ CloneEnvelope
    \/ \E slot \in {"A", "B"}, ser \in Serialized : DeserializeEnvelope(slot, ser)
    \/ CompareEnvelopes

SpecValues == InitValues /\ [][NextValues]_vars

\* -------------------------------------------------- actions: the mail layer

\* The model follows one email: a constructor runs while none was built.
\* The envelope is moved out of envA into the email.
NewEmail(message_id, message) ==
    /\ built = None
    /\ envA # None
    /\ email' = Some(SendableEmailNew(envA[1], message_id, message))
    /\ built' = Some([envelope |-> envA[1], message_id |-> message_id,
                       message |-> MessageBytes(message)])
    /\ envA' = None
    /\ holder' = {"caller"}
    /\ call' = [NoCall EXCEPT !.op = "SendableEmail::new", !.res = Ok("email")]
    /\ UNCHANGED <<envB, msg, ret, got, eos, sent, accessed, consumed>>

NewEmailWithReader(message_id, message) ==
    /\ built = None
    /\ envA # None
    /\ email' = Some(SendableEmailNewWithReader(envA[1], message_id, message))
    /\ built' = Some([envelope |-> envA[1], message_id |-> message_id,
                       message |-> MessageReader(message)])
    /\ envA' = None
    /\ holder' = {"caller"}
    /\ call' = [NoCall EXCEPT !.op = "SendableEmail::new_with_reader",
                              !.res = Ok("email")]
    /\ UNCHANGED <<envB, msg, ret, got, eos, sent, accessed, consumed>>

\* A call by party p comes late when the email was consumed before it, or
\* when p is the caller who handed the email to a transport.
Late(p) == consumed # "no" \/ (p = "caller" /\ sent)

\* email.envelope(), by the party that holds the email (&self)
CallEnvelope(p) ==
    /\ p \in holder
    /\ ret' = [NoRet EXCEPT !.op = "envelope",
                            !.env = Some(SendableEmailEnvelope(email[1])),
                            !.late = Late(p)]
    /\ accessed' = TRUE
    /\ UNCHANGED <<valueVars, email, holder, msg, built, got, eos, sent, consumed>>

\* email.message_id(), by the party that holds the email (&self)
CallMessageId(p) ==
    /\ p \in holder
    /\ ret' = [NoRet EXCEPT !.op = "message_id",
                            !.id = Some(SendableEmailMessageId(email[1])),
                            !.late = Late(p)]
    /\ accessed' = TRUE
    /\ UNCHANGED <<valueVars, email, holder, msg, built, got, eos, sent, consumed>>

\* transport.send(email): the email is passed by value, the caller's
\* binding is moved from and the transport owns the email.
TransportSend ==
    /\ "caller" \in holder
    /\ holder' = (holder \ {"caller"}) \cup {"transport"}
    /\ sent' = TRUE
    /\ ret' = [NoRet EXCEPT !.op = "send", !.late = Late("caller")]
    /\ UNCHANGED <<valueVars, email, msg, built, got, eos, accessed, consumed>>

\* message() as it would be with a borrowed receiver (&mut self): the Message
\* is handed out and the email stays with its holder.
CallMessageBorrowing(p) ==
    /\ p \in holder
    /\ msg' = Some(SendableEmailMessage(email[1]))
    /\ consumed' = IF consumed = "no" THEN "once" ELSE "again"
    /\ ret' = [NoRet EXCEPT !.op = "message", !.late = Late(p)]
    /\ UNCHANGED <<valueVars, email, holder, built, got, eos, sent, accessed>>

\* email.message(), by the party that holds the email (self, by value): the
\* Message is moved out, the rest of the email is dropped.
CallMessage(p) ==
    /\ p \in holder
    /\ msg' = Some(SendableEmailMessage(email[1]))
    /\ email' = None
    /\ holder' = holder \ {p}
    /\ consumed' = IF consumed = "no" THEN "once" ELSE "again"
    /\ ret' = [NoRet EXCEPT !.op = "message", !.late = Late(p)]
    /\ UNCHANGED <<valueVars, built, got, eos, sent, accessed>>

\* email.message_to_string(), by the party that holds the email (self, by
\* value): the email is dropped when the call returns.
CallMessageToString(p, n) ==
    LET r == SendableEmailMessageToString(email[1], n)
    IN  /\ p \in holder
        /\ email' = None
        /\ holder' = holder \ {p}
        /\ consumed' = IF consumed = "no" THEN "once" ELSE "again"
        /\ ret' = [NoRet EXCEPT !.op = "message_to_string", !.ok = r.ok,
                                !.bytes = r.text, !.domain = r.domain,
                                !.kind = r.kind, !.late = Late(p)]
        /\ UNCHANGED <<valueVars, msg, built, got, eos, sent, accessed>>

\* message.read(buf) with a buffer of n bytes, on the Message that message()
\* returned
ReadMessage(n) ==
    /\ msg # None
    /\ LET r == MessageRead(msg[1], n)
       IN  /\ msg' = Some(r.msg)
           /\ ret' = [NoRet EXCEPT !.op = "read", !.ok = r.ok, !.bytes = r.bytes,
                                   !.domain = IF r.ok THEN "" ELSE "io",
                                   !.kind = r.kind, !.afterEos = eos]
           /\ got' = got \o r.bytes
           /\ eos' = (eos \/ (r.ok /\ Len(r.bytes) = 0))
    /\ UNCHANGED <<valueVars, email, holder, built, sent, accessed, consumed>>

Parties == {"caller", "transport"}

NextMail ==
    \/ \E id \in MessageIds, b \in Buffers : NewEmail(id, b)
    \/ \E id \in MessageIds, sc \in Scripts : NewEmailWithReader(id, sc)
    \/ \E p \in Parties : CallEnvelope(p)
    \/ \E p \in Parties : CallMessageId(p)
    \/ TransportSend
    \/ \E p \in Parties : CallMessage(p)
    \/ \E p \in Parties, n \in 1..MaxBuf : CallMessageToString(p, n)
    \/ \E n \in 1..MaxBuf : ReadMessage(n)

\* The mail layer: the caller holds an envelope and builds an email from it.
InitEmails ==
    /\ envA \in {Some(e) : e \in MailEnvelopes}
    /\ envB = None
    /\ call = NoCall
    /\ InitMail

SpecMail == InitEmails /\ [][NextMail]_vars

\* The constructors together: addresses, envelopes, emails.  The payloads
\* are few here: no constructor looks at them.
CtorBuffers == {<<>>, <<65>>}
CtorScripts == {<<>>, <<[k |-> "err", b |-> <<>>]>>}
NextCtor ==
    \/ \E s \in AddrStrs : NewAddress(s)
    \/ \E s \in AddrStrs : ParseAddress(s)
    \/ \E from \in OptionOf(EnvAddrs), to \in SeqsUpTo(EnvAddrs, MaxTo) :
            NewEnvelope("A", from, to)
    \/ \E id \in MessageIds, b \in CtorBuffers : NewEmail(id, b)
    \/ \E id \in MessageIds, sc \in CtorScripts : NewEmailWithReader(id, sc)

SpecCtor == InitValues /\ [][NextCtor]_vars

\* ------------------------------------------------- claims: the value layer

\* C1: Envelope::new(S, L) fails, with MissingTo, exactly when L is empty,
\* whatever S is; when L is not empty it succeeds and the envelope's to() is
\* L, the same elements in the same order, and its from() is S.
C1_EnvelopeNew ==
    call.op = "Envelope::new" =>
        /\ ~call.res.ok <=> call.to = <<>>
        /\ ~call.res.ok => call.res.err = Some("MissingTo")
        /\ call.res.ok =>
              /\ EnvelopeTo(call.res.val[1]) = call.to
              /\ EnvelopeFrom(call.res.val[1]) = call.from

\* Envelope::new has succeeded with two different recipients and no sender.
C1_Witness ==
    /\ call.op = "Envelope::new"
    /\ call.res.ok
    /\ call.from = None
    /\ Len(call.to) = 2
    /\ call.to[1] # call.to[2]
    /\ envA = call.res.val

\* C2: every Envelope that exists, however it was obtained (Envelope::new,
\* clone, inside a SendableEmail, the derived deserialization), has a
\* recipient list that is not empty.
C2_RecipientsNeverEmpty ==
    /\ \A o \in {envA, envB} : o # None => Len(EnvelopeTo(o[1])) > 0
    /\ email # None => Len(EnvelopeTo(SendableEmailEnvelope(email[1]))) > 0

\* C3: EmailAddress::new and from_str succeed for every text, the empty and
\* the invalid included, and Display of the address gives the text back.
C3_AddressRoundTrip ==
    /\ call.op \in {"EmailAddress::new", "EmailAddress::from_str", "Display"} =>
          call.res.ok
    /\ call.op = "Display" => call.out = call.str

\* An address made from invalid text has been displayed.
C3_Witness ==
    /\ call.op = "Display"
    /\ call.str = "not an address"
    /\ call.out = "not an address"

\* C8: two envelopes compare equal exactly when their senders are equal and
\* their recipient lists are the same sequence; an envelope and the same
\* envelope with two different recipients swapped compare unequal.
C8_EnvelopeEquality ==
    call.op = "Envelope::eq" =>
        LET a == envA[1]
            b == envB[1]
        IN  /\ call.eq <=> (EnvelopeFrom(a) = EnvelopeFrom(b) /\ EnvelopeTo(a) = EnvelopeTo(b))
            /\ ( /\ Len(EnvelopeTo(a)) = 2
                 /\ EnvelopeTo(a)[1] # EnvelopeTo(a)[2]
                 /\ EnvelopeTo(b) = <<EnvelopeTo(a)[2], EnvelopeTo(a)[1]>> ) => ~call.eq

\* Two envelopes with the same sender and swapped recipients were compared.
C8_Witness ==
    /\ call.op = "Envelope::eq"
    /\ ~call.eq
    /\ EnvelopeFrom(envA[1]) = EnvelopeFrom(envB[1])
    /\ Len(EnvelopeTo(envA[1])) = 2
    /\ EnvelopeTo(envA[1])[1] # EnvelopeTo(envA[1])[2]
    /\ EnvelopeTo(envB[1]) = <<EnvelopeTo(envA[1])[2], EnvelopeTo(envA[1])[1]>>

\* C10: a constructor's error is always MissingTo, and it comes from
\* Envelope::new with an empty recipient list: EmailAddress::new, from_str,
\* SendableEmail::new and new_with_reader return no error, and MissingFrom
\* and InvalidEmailAddress are never produced.
C10_OnlyMissingTo ==
    /\ ~call.res.ok =>
          /\ call.op = "Envelope::new"
          /\ call.to = <<>>
          /\ call.res.err = Some("MissingTo")
    /\ call.res.err \in OptionOf(ErrorKinds)

\* Envelope::new has refused an empty recipient list that came with a sender,
\* after an email was built.
C10_Witness ==
    /\ call.op = "Envelope::new"
    /\ call.res.err = Some("MissingTo")
    /\ call.from # None
    /\ email # None

\* -------------------------------------------------- claims: the mail layer

\* The bytes a source's outcomes deliver to a drain that starts at their
\* head: the chunks up to the first end-of-stream report or failing read, a
\* read that fails with Interrupted aside.
RECURSIVE Yielded(_)
Yielded(script) ==
    IF Len(script) = 0 THEN <<>>
    ELSE CASE Head(script).k = "data" -> Head(script).b \o Yielded(Tail(script))
           [] Head(script).k = "intr" -> Yielded(Tail(script))
           [] OTHER -> <<>>

\* All the bytes of a source's outcomes.
RECURSIVE AllData(_)
AllData(script) ==
    IF Len(script) = 0 THEN <<>>
    ELSE Head(script).b \o AllData(Tail(script))

\* The outcomes a drain meets: up to and with the first end-of-stream report
\* or failing read other than Interrupted.
RECURSIVE Met(_)
Met(script) ==
    IF Len(script) = 0 THEN <<>>
    ELSE IF Head(script).k \in {"eof", "err"}
         THEN <<Head(script)>>
         ELSE <<Head(script)>> \o Met(Tail(script))

Kinds(script) == {script[i].k : i \in 1..Len(script)}

\* The payload the email was constructed with.
Payload ==
    IF built[1].message.tag = "Bytes"
    THEN built[1].message.buf
    ELSE Yielded(built[1].message.src)

\* C4: message_to_string() returns the whole payload in order: of an email
\* built by new() from a buffer that is valid text, the whole buffer from
\* offset 0; of an email built by new_with_reader() from a source that yields
\* chunks, the chunks concatenated in the order yielded.
C4_WholePayload ==
    ret.op = "message_to_string" =>
        /\ ret.ok => ret.bytes = Payload
        /\ ( /\ Kinds(Met(built[1].message.src)) \subseteq {"data", "eof"}
             /\ Utf8Valid(Payload) ) => ret.ok

\* A source has yielded two chunks, the two bytes of one character split
\* between them, and the drain returned them joined.
C4_Witness ==
    /\ ret.op = "message_to_string"
    /\ built[1].message.tag = "Reader"
    /\ built[1].message.src = <<[k |-> "data", b |-> <<195>>], [k |-> "data", b |-> <<169>>]>>
    /\ ret.ok
    /\ ret.bytes = <<195, 169>>

\* C5, as claimed: message_to_string() fails with an I/O error and no text
\* when any read of the Message fails, and when the bytes are not UTF-8.
C5_AnyFailedReadFails ==
    ( /\ ret.op = "message_to_string"
      /\ \/ Kinds(Met(built[1].message.src)) \cap {"intr", "err"} # {}
         \/ ~Utf8Valid(Payload) ) =>
        ~ret.ok /\ ret.domain = "io" /\ ret.bytes = <<>>

\* C5, amended: message_to_string() fails with an I/O error and no text
\* when a read of the Message fails with an error other than Interrupted,
\* after earlier chunks or not, and when the bytes drained are not UTF-8;
\* its error is never one of the kinds of Error.
C5_HardFailureFails ==
    ret.op = "message_to_string" =>
        /\ ( \/ "err" \in Kinds(Met(built[1].message.src))
             \/ ~Utf8Valid(Payload) ) =>
                (~ret.ok /\ ret.domain = "io" /\ ret.bytes = <<>>)
        /\ ~ret.ok => (ret.domain = "io" /\ ret.kind \notin ErrorKinds)

\* A read has failed after a chunk was read, and the drain failed with it.
C5_Witness ==
    /\ ret.op = "message_to_string"
    /\ built[1].message.src = <<[k |-> "data", b |-> <<65>>], [k |-> "err", b |-> <<>>]>>
    /\ ~ret.ok
    /\ ret.kind = "Other"

\* C6: a SendableEmail is consumed once: after message(), message_to_string()
\* or send() has taken it, the party it was taken from applies no further
\* operation to it; while it exists exactly one party holds it, and once
\* consumed it is gone.
C6_ConsumedOnce ==
    /\ Cardinality(holder) <= 1
    /\ email # None <=> holder # {}
    /\ consumed # "again"
    /\ consumed = "once" => email = None
    /\ sent => "caller" \notin holder
    /\ ~ret.late

\* The email went to a transport, which consumed it.
C6_Witness ==
    /\ sent
    /\ consumed = "once"
    /\ ret.op \in {"message", "message_to_string"}
    /\ holder = {}

\* C7: envelope() and message_id() neither consume nor change the email:
\* they return the envelope and the identifier given at construction, the
\* email stays as constructed while it exists, and message() hands out the
\* Message as constructed, at its start.
C7_AccessorsReadOnly ==
    /\ ret.op \in {"envelope", "message_id"} => email # None /\ consumed = "no"
    /\ ret.op = "envelope" => ret.env = Some(built[1].envelope)
    /\ ret.op = "message_id" => ret.id = Some(built[1].message_id)
    /\ email # None => email[1] = built[1]
    /\ ret.op = "message" => msg = Some(built[1].message)

\* After accessor calls message() handed out the Message, and its reads
\* delivered the whole payload of three bytes up to end-of-stream.
C7_Witness ==
    /\ accessed
    /\ built[1].message_id = "<id-1@host>"
    /\ msg # None
    /\ eos
    /\ Len(got) = 3
    /\ got = Payload

\* C9, as claimed: once a read of the Message has reported end-of-stream,
\* every later read yields no bytes.
C9_NothingAfterEos ==
    (ret.op = "read" /\ ret.afterEos) => ret.bytes = <<>>

\* The bytes a Message has yet to deliver.
Remaining(m) ==
    IF m.tag = "Bytes" THEN SubSeq(m.buf, m.pos + 1, Len(m.buf)) ELSE AllData(m.src)

\* No outcome of the source after its first end-of-stream report is a chunk.
StaysAtEos(script) ==
    \A i, j \in 1..Len(script) :
        (i < j /\ script[i].k = "eof") => script[j].k # "data"

\* C9, amended: a Message is not re-readable: a read returns what the source
\* returns, zero bytes for end-of-stream, and no byte is delivered twice;
\* once a read has reported end-of-stream, every later read yields no bytes
\* unless the source itself yields bytes after its end-of-stream report.
C9_NoReplay ==
    msg # None =>
        /\ got \o Remaining(msg[1]) = Remaining(built[1].message)
        /\ ( /\ ret.op = "read"
             /\ ret.afterEos
             /\ StaysAtEos(built[1].message.src) ) => ret.bytes = <<>>

\* A streaming Message was drained to end-of-stream and read again.
C9_Witness ==
    /\ msg # None
    /\ msg[1].tag = "Reader"
    /\ ret.op = "read"
    /\ ret.afterEos
    /\ ret.ok
    /\ ret.bytes = <<>>
    /\ Len(got) > 0

====
